---------------------------- MODULE Spec2Model ----------------------------
(***************************************************************************)
(* Model of src/mydataanalyst.py: the DataAnalystAgent column classifier   *)
(* (analyze_structure) and the dashboard script that filters the table,    *)
(* emits the top metrics and resolves the five chart slots.                *)
(*                                                                         *)
(* A table is a sequence of column profiles.  A profile carries what the   *)
(* classifier reads of a column: its name, its dtype, nunique() and        *)
(* whether pd.to_datetime raises on its values.  Cell values are drawn     *)
(* where the script reads them (the time column when it is parsed, the     *)
(* segment column in the segment filter, the revenue and user columns in   *)
(* the metrics block).                                                     *)
(***************************************************************************)
EXTENDS Integers, Sequences, FiniteSets, TLC

VARIABLES
    table,      \* df_raw: the uploaded table (sequence of column profiles)
    nrows,      \* len(df_raw)
    run,        \* number of agents constructed over the table so far
    firstCols,  \* agent.cols of the first agent (kept for comparison)
    df,         \* agent.df: the agent's private copy of the table
    cols,       \* agent.cols: the role dictionary
    idx,        \* position of the column scan of analyze_structure
    timeVals,   \* agent.df[time]: parsed values of the time column, by row
    pc,         \* block of the script that runs next
    kept,       \* df_filtered, as the set of row numbers it retains
    dateRange,  \* value of the "Date Range" widget
    defaults,   \* TRUE while every sidebar widget holds its default value
    metrics,    \* rows / rev / users / ARPU as computed by the metrics block
    sliceCol,   \* slice_col: value of the "Group By:" selectbox
    slots,      \* resolution of the five chart slots
    out,        \* what the run has emitted so far, in order
    errAt       \* block whose exception reached the except handler

vars == <<table, nrows, run, firstCols, df, cols, idx, timeVals, pc, kept,
          dateRange, defaults, metrics, sliceCol, slots, out, errAt>>

----------------------------------------------------------------------------
(* Bounds *)

MaxCols == 3        \* columns of a table handed to the classifier alone
MaxAppCols == 3     \* columns of a table uploaded to the dashboard
MaxRows == 2        \* rows of an uploaded table
MaxRuns == 2        \* agents constructed over one table

----------------------------------------------------------------------------
(* Python values *)

None == "<None>"
NaT == <<-1, 0>>            \* pandas missing timestamp; real ones are <<day, time of day>>

\* Python truthiness of a role entry (None and "" are falsy)
Truthy(v) == v # None /\ v # ""

----------------------------------------------------------------------------
(* Column names: str(col).lower().strip() and the substring tests *)

Chars(col) ==
  CASE col = "order_date"  -> <<"o", "r", "d", "e", "r", "_", "d", "a", "t", "e">>
    [] col = "Created At " -> <<"C", "r", "e", "a", "t", "e", "d", " ", "A", "t", " ">>
    [] col = "customer_id" -> <<"c", "u", "s", "t", "o", "m", "e", "r", "_", "i", "d">>
    [] col = "amount"      -> <<"a", "m", "o", "u", "n", "t">>
    [] col = "region"      -> <<"r", "e", "g", "i", "o", "n">>
    [] col = "qty"         -> <<"q", "t", "y">>
    [] col = "id"          -> <<"i", "d">>
    [] col = "price"       -> <<"p", "r", "i", "c", "e">>
    [] col = "cost"        -> <<"c", "o", "s", "t">>
    [] col = "category"    -> <<"c", "a", "t", "e", "g", "o", "r", "y">>

UpperCase == <<"A","B","C","D","E","F","G","H","I","J","K","L","M",
               "N","O","P","Q","R","S","T","U","V","W","X","Y","Z">>
LowerCase == <<"a","b","c","d","e","f","g","h","i","j","k","l","m",
               "n","o","p","q","r","s","t","u","v","w","x","y","z">>

LowerCh(ch) ==
  IF \E i \in 1..Len(UpperCase) : UpperCase[i] = ch
  THEN LowerCase[CHOOSE i \in 1..Len(UpperCase) : UpperCase[i] = ch]
  ELSE ch

Lower(s) == [i \in 1..Len(s) |-> LowerCh(s[i])]

RECURSIVE LStrip(_)
LStrip(s) == IF s # <<>> /\ Head(s) = " " THEN LStrip(Tail(s)) ELSE s

RECURSIVE RStrip(_)
RStrip(s) == IF s # <<>> /\ s[Len(s)] = " " THEN RStrip(SubSeq(s, 1, Len(s) - 1)) ELSE s

Strip(s) == RStrip(LStrip(s))

Clean(col) == Strip(Lower(Chars(col)))

\* Python's `x in clean` for strings
Contains(x, s) ==
  \E i \in 0..(Len(s) - Len(x)) : SubSeq(s, i + 1, i + Len(x)) = x

TimeWords == { <<"d", "a", "t", "e">>, <<"t", "i", "m", "e">>,
               <<"c", "r", "e", "a", "t", "e", "d">> }
RevWords  == { <<"r", "e", "v", "e", "n", "u", "e">>, <<"a", "m", "o", "u", "n", "t">>,
               <<"p", "r", "i", "c", "e">>, <<"s", "a", "l", "e", "s">>,
               <<"c", "o", "s", "t">> }
UserWords == { <<"u", "s", "e", "r", "_", "i", "d">>,
               <<"c", "u", "s", "t", "o", "m", "e", "r", "_", "i", "d">>,
               <<"e", "m", "a", "i", "l">>, <<"u", "i", "d">> }

AnyIn(words, clean) == \E x \in words : Contains(x, clean)

\* The names the tables of this model use, and for each list of words the names
\* whose cleaned form holds one of them (the tests of lines 36, 43 and 48,
\* evaluated once per name)
ColumnNames == {"order_date", "Created At ", "customer_id", "amount", "region",
                "qty", "id", "price", "cost", "category"}
TimeNamed == { n \in ColumnNames : AnyIn(TimeWords, Clean(n)) }
RevNamed  == { n \in ColumnNames : AnyIn(RevWords, Clean(n)) }
UserNamed == { n \in ColumnNames : AnyIn(UserWords, Clean(n)) }

IsDatetime(dtype) == dtype = "datetime"     \* np.issubdtype(dtype, np.datetime64)
IsNumber(dtype)   == dtype = "number"       \* np.issubdtype(dtype, np.number)
IsObject(dtype)   == dtype = "object"       \* dtype == 'object'

DimThreshold == 100

----------------------------------------------------------------------------
(* DataAnalystAgent *)

EmptyCols == [time |-> None, user |-> None, rev |-> None,
              dimensions |-> <<>>, numeric |-> <<>>]

\* TimeRule without the `not self.cols["time"]` test: the last match wins
TimeRuleNoGuard(c, p) ==
  p.name \in TimeNamed \/ IsDatetime(p.dtype)

\* condition of the first branch of the chain
TimeRule(c, p) ==
  /\ ~Truthy(c.time)
  /\ (p.name \in TimeNamed \/ IsDatetime(p.dtype))

\* ApplyRules with the dimension test written as an `if` of its own after the
\* chain instead of its last `elif`
ApplyRulesDimIf(c, p) ==
  LET c1 == IF TimeRule(c, p)
              THEN IF p.raises THEN c ELSE [c EXCEPT !.time = p.name]
            ELSE IF ~Truthy(c.rev) /\ p.name \in RevNamed /\ IsNumber(p.dtype)
              THEN [c EXCEPT !.rev = p.name, !.numeric = Append(@, p.name)]
            ELSE IF ~Truthy(c.user) /\ p.name \in UserNamed
              THEN [c EXCEPT !.user = p.name]
            ELSE IF IsNumber(p.dtype)
              THEN [c EXCEPT !.numeric = Append(@, p.name)]
            ELSE c
  IN IF p.nunique < DimThreshold /\ IsObject(p.dtype)
     THEN [c1 EXCEPT !.dimensions = Append(@, p.name)]
     ELSE c1

\* ApplyRules without the `not self.cols["rev"]` test: the last match wins
ApplyRulesRevLast(c, p) ==
  IF TimeRule(c, p)
    THEN IF p.raises THEN c ELSE [c EXCEPT !.time = p.name]
  ELSE IF p.name \in RevNamed /\ IsNumber(p.dtype)
    THEN [c EXCEPT !.rev = p.name, !.numeric = Append(@, p.name)]
  ELSE IF ~Truthy(c.user) /\ p.name \in UserNamed
    THEN [c EXCEPT !.user = p.name]
  ELSE IF IsNumber(p.dtype)
    THEN [c EXCEPT !.numeric = Append(@, p.name)]
  ELSE IF p.nunique < DimThreshold /\ IsObject(p.dtype)
    THEN [c EXCEPT !.dimensions = Append(@, p.name)]
  ELSE c

\* One iteration of the loop body on column profile p with role dictionary c.
\* The if/elif chain: the first branch whose condition holds is the only one
\* taken; inside the time branch the assignment is skipped when to_datetime
\* raises (try ... except: pass).
ApplyRules(c, p) ==
  IF TimeRule(c, p)
    THEN IF p.raises THEN c ELSE [c EXCEPT !.time = p.name]
  ELSE IF ~Truthy(c.rev) /\ p.name \in RevNamed /\ IsNumber(p.dtype)
    THEN [c EXCEPT !.rev = p.name, !.numeric = Append(@, p.name)]
  ELSE IF ~Truthy(c.user) /\ p.name \in UserNamed
    THEN [c EXCEPT !.user = p.name]
  ELSE IF IsNumber(p.dtype)
    THEN [c EXCEPT !.numeric = Append(@, p.name)]
  ELSE IF p.nunique < DimThreshold /\ IsObject(p.dtype)
    THEN [c EXCEPT !.dimensions = Append(@, p.name)]
  ELSE c


\* ScanDone with `return self` inside the loop body: one column is scanned
ScanDoneEarly(i, d) == i > 1

ScanDone(i, d) == i > Len(d)        \* the for loop has run out of columns

\* Construct with the role dictionary shared between agents (a class attribute)
ConstructShared == cols

\* __init__: a fresh role dictionary for every agent
Construct == EmptyCols

----------------------------------------------------------------------------
(* Cell values *)

Dtypes == {"number", "object", "datetime"}

\* values a cell of a column can hold, by dtype
RawCells(dtype) ==
  CASE dtype = "object"   -> {"2024-01-01", "2024-01-02 15:30", "n/a"}
    [] dtype = "number"   -> {0, 1}
    [] dtype = "datetime" -> {<<1, 0>>, <<2, 1>>, NaT}

\* pd.to_datetime(cell, errors='coerce'): text that is no date becomes NaT,
\* a number is a count of nanoseconds after 1970-01-01 00:00 (day 0)
ToDatetime(dtype, cell) ==
  CASE dtype = "object" ->
         (CASE cell = "2024-01-01"       -> <<1, 0>>
            [] cell = "2024-01-02 15:30" -> <<2, 1>>
            [] OTHER                     -> NaT)
    [] dtype = "number"   -> <<0, cell>>
    [] dtype = "datetime" -> cell

DateOf(ts) == ts[1]                  \* the date part, as st.date_input keeps it
MidnightOf(d) == <<d, 0>>            \* pd.to_datetime(date)

\* comparisons of timestamps; every comparison with NaT is False
TsLeq(a, b) == a # NaT /\ b # NaT /\ (a[1] < b[1] \/ (a[1] = b[1] /\ a[2] <= b[2]))
TsGeq(a, b) == TsLeq(b, a)

Valid(vals) == {vals[i] : i \in DOMAIN vals} \ {NaT}
\* Series.min() / Series.max() skip missing values and give NaT when none is left
TsMin(vals) == IF Valid(vals) = {} THEN NaT
               ELSE CHOOSE m \in Valid(vals) : \A v \in Valid(vals) : TsLeq(m, v)
TsMax(vals) == IF Valid(vals) = {} THEN NaT
               ELSE CHOOSE m \in Valid(vals) : \A v \in Valid(vals) : TsLeq(v, m)

RECURSIVE SumOver(_, _)
SumOver(f, S) == IF S = {} THEN 0
                 ELSE LET i == CHOOSE j \in S : TRUE IN f[i] + SumOver(f, S \ {i})

NA == "<NA>"
SegVals == {"north", "south"}
UserVals == {"u1", "u2", NA}
RevVals == {2, 5}
Days == {1, 2}

----------------------------------------------------------------------------
(* Initial states *)

SlotNames == {"trend", "breakdown", "ranked", "distribution", "correlation"}
Pending == [status |-> "pending", x |-> None, y |-> None, agg |-> None,
            top |-> None, color |-> None]
NoMetrics == [rows |-> -1, rev |-> 0, users |-> 0, arpu |-> <<>>]

Profile(n, t, u, r) == [name |-> n, dtype |-> t, nunique |-> u, raises |-> r]

DistinctNames(t) == \A i, j \in DOMAIN t : i # j => t[i].name # t[j].name

TablesOf(profiles, n) ==
  { t \in UNION { [1..k -> profiles] : k \in 1..n } : DistinctNames(t) }

Start(t, n) ==
  /\ table = t
  /\ nrows = n
  /\ run = 1
  /\ firstCols = EmptyCols
  /\ df = t
  /\ cols = EmptyCols
  /\ idx = 1
  /\ timeVals = <<>>
  /\ pc = "scan"
  /\ kept = {}
  /\ dateRange = <<>>
  /\ defaults = TRUE
  /\ metrics = NoMetrics
  /\ sliceCol = None
  /\ slots = [s \in SlotNames |-> Pending]
  /\ out = <<>>
  /\ errAt = None

----------------------------------------------------------------------------
(* analyze_structure *)

ScanColumn ==
  /\ pc = "scan"
  /\ IF ScanDone(idx, df)
     THEN /\ pc' = "date_filter"
          /\ UNCHANGED <<df, cols, idx, timeVals>>
     ELSE LET p == df[idx]
              parsed == TimeRule(cols, p) /\ ~p.raises
          IN /\ cols' = ApplyRules(cols, p)
             /\ idx' = idx + 1
             /\ pc' = pc
             /\ IF parsed
                THEN /\ df' = [df EXCEPT ![idx].dtype = "datetime"]
                     /\ \E cells \in [1..nrows -> RawCells(p.dtype)] :
                          timeVals' = [i \in 1..nrows |-> ToDatetime(p.dtype, cells[i])]
                ELSE UNCHANGED <<df, timeVals>>
  /\ UNCHANGED <<table, nrows, run, firstCols, kept, dateRange, defaults,
                 metrics, sliceCol, slots, out, errAt>>

\* DataAnalystAgent(table).analyze_structure() once more over the same table
Reclassify ==
  /\ pc = "date_filter"
  /\ run < MaxRuns
  /\ run' = run + 1
  /\ firstCols' = IF run = 1 THEN cols ELSE firstCols
  /\ df' = table
  /\ cols' = Construct
  /\ idx' = 1
  /\ timeVals' = <<>>
  /\ pc' = "scan"
  /\ UNCHANGED <<table, nrows, kept, dateRange, defaults, metrics, sliceCol,
                 slots, out, errAt>>

----------------------------------------------------------------------------
(* The script: try block of `if uploaded_file:` *)

\* except Exception as e: st.error(...)
Raise(block) ==
  /\ pc' = "error"
  /\ errAt' = block
  /\ out' = Append(out, <<"error", block>>)

AllRows == 1..nrows

DefaultRange(vals) == <<DateOf(TsMin(vals)), DateOf(TsMax(vals))>>

\* what the user can set the "Date Range" widget to: one date while a range
\* is being picked, or a range
UserRanges == { <<d>> : d \in Days } \cup
              { r \in Days \X Days : r[1] <= r[2] }

\* rows the date mask keeps
InRange(vals, r) ==
  { i \in DOMAIN vals : TsGeq(vals[i], MidnightOf(r[1])) /\ TsLeq(vals[i], MidnightOf(r[2])) }

\* 1. Date Filter.  st.date_input is handed [min_date, max_date]; when the
\* column has no valid value both are NaT, on which the widget either raises or
\* shows whatever range the user sets.
DateFilter ==
  /\ pc = "date_filter"
  /\ IF ~Truthy(cols.time)
     THEN /\ kept' = AllRows
          /\ pc' = "dim_filter"
          /\ UNCHANGED <<dateRange, defaults, out, errAt>>
     ELSE \E raised \in (IF TsMin(timeVals) = NaT THEN BOOLEAN ELSE {FALSE}) :
          \E r \in (IF TsMin(timeVals) = NaT THEN {} ELSE {DefaultRange(timeVals)})
                     \cup UserRanges :
            IF raised
            THEN /\ Raise("date_filter")
                 /\ kept' = AllRows
                 /\ UNCHANGED <<dateRange, defaults>>
            ELSE /\ dateRange' = r
                 /\ defaults' = (TsMin(timeVals) # NaT /\ r = DefaultRange(timeVals))
                 /\ kept' = IF Len(r) = 2 THEN InRange(timeVals, r) ELSE AllRows
                 /\ pc' = "dim_filter"
                 /\ UNCHANGED <<out, errAt>>
  /\ UNCHANGED <<table, nrows, run, firstCols, df, cols, idx, timeVals,
                 metrics, sliceCol, slots>>

\* elements of a list
Range(q) == { q[i] : i \in DOMAIN q }

\* 2. Dimension Filter
DimFilter ==
  /\ pc = "dim_filter"
  /\ IF cols.dimensions # <<>>
     THEN \E filter_dim \in {"All"} \cup Range(cols.dimensions) :
            IF filter_dim # "All"
            THEN \E cells \in [kept -> SegVals] :
                 \E selected_val \in SUBSET { cells[i] : i \in kept } :
                   /\ kept' = IF selected_val # {}
                              THEN { i \in kept : cells[i] \in selected_val }
                              ELSE kept
                   /\ defaults' = FALSE
            ELSE UNCHANGED <<kept, defaults>>
     ELSE UNCHANGED <<kept, defaults>>
  /\ pc' = "metrics"
  /\ UNCHANGED <<table, nrows, run, firstCols, df, cols, idx, timeVals,
                 dateRange, metrics, sliceCol, slots, out, errAt>>

\* Series.nunique(): distinct values, missing ones not counted
Nunique(cells) == Cardinality(Range(cells) \ {NA})

\* ArpuShown without the `users > 0` test
ArpuShownNoGuard(c, users) == Truthy(c.rev) /\ Truthy(c.user)

\* condition of the ARPU metric
ArpuShown(c, users) == Truthy(c.rev) /\ Truthy(c.user) /\ users > 0

\* A. Top metrics.  The quotient rev/users is kept as <<rev, users>>; Python
\* raises ZeroDivisionError when the divisor is 0.
Metrics ==
  /\ pc = "metrics"
  /\ \E revCells \in [kept -> RevVals], userCells \in [kept -> UserVals] :
       LET rows  == Cardinality(kept)
           rev   == IF Truthy(cols.rev) THEN SumOver(revCells, kept) ELSE 0
           users == IF Truthy(cols.user) THEN Nunique(userCells) ELSE 0
           m1 == Append(out, <<"metric", "Rows Analyzed">>)
           m2 == IF Truthy(cols.rev) THEN Append(m1, <<"metric", "Total Revenue">>) ELSE m1
           m3 == IF Truthy(cols.user) THEN Append(m2, <<"metric", "Active Users">>) ELSE m2
       IN IF ArpuShown(cols, users)
          THEN IF users = 0
               THEN /\ metrics' = [rows |-> rows, rev |-> rev, users |-> users, arpu |-> <<>>]
                    /\ pc' = "error"
                    /\ errAt' = "metrics"
                    /\ out' = Append(m3, <<"error", "metrics">>)
               ELSE /\ metrics' = [rows |-> rows, rev |-> rev, users |-> users,
                                   arpu |-> <<rev, users>>]
                    /\ out' = Append(m3, <<"metric", "ARPU">>)
                    /\ pc' = "trend"
                    /\ UNCHANGED errAt
          ELSE /\ metrics' = [rows |-> rows, rev |-> rev, users |-> users, arpu |-> <<>>]
               /\ out' = m3
               /\ pc' = "trend"
               /\ UNCHANGED errAt
  /\ UNCHANGED <<table, nrows, run, firstCols, df, cols, idx, timeVals, kept,
                 dateRange, defaults, sliceCol, slots>>

Resolved(x, y, agg, top, color) ==
  [status |-> "resolved", x |-> x, y |-> y, agg |-> agg, top |-> top, color |-> color]
Unavailable == [Pending EXCEPT !.status = "unavailable"]

Chart(slot) == out' = Append(out, <<"chart", slot>>)
Info(slot) == out' = Append(out, <<"info", slot>>)

\* c1: Trends over Time
Trend ==
  /\ pc = "trend"
  /\ IF Truthy(cols.time)
     THEN LET metric_to_plot ==
                IF Truthy(cols.rev) THEN cols.rev
                ELSE IF cols.numeric # <<>> THEN cols.numeric[1] ELSE None
          IN IF Truthy(metric_to_plot)
             THEN \E freq \in {"D", "W", "M"} :
                    /\ slots' = [slots EXCEPT !["trend"] =
                                   Resolved(cols.time, metric_to_plot, "sum", freq, None)]
                    /\ Chart("trend")
             ELSE /\ slots' = [slots EXCEPT !["trend"] = Unavailable]
                  /\ UNCHANGED out
     ELSE /\ slots' = [slots EXCEPT !["trend"] = Unavailable]
          /\ Info("trend")
  /\ pc' = "breakdown"
  /\ UNCHANGED <<table, nrows, run, firstCols, df, cols, idx, timeVals, kept,
                 dateRange, defaults, metrics, sliceCol, errAt>>

\* c2: Slice by Category
Breakdown ==
  /\ pc = "breakdown"
  /\ IF cols.dimensions # <<>>
     THEN \E slice_col \in Range(cols.dimensions) :
            LET metric_col == IF Truthy(cols.rev) THEN cols.rev ELSE "Count"
            IN /\ sliceCol' = slice_col
               /\ slots' = [slots EXCEPT !["breakdown"] =
                              Resolved(slice_col, metric_col,
                                       IF metric_col = "Count" THEN "count" ELSE "sum",
                                       "10", None)]
               /\ Chart("breakdown")
     ELSE /\ slots' = [slots EXCEPT !["breakdown"] = Unavailable]
          /\ Info("breakdown")
          /\ UNCHANGED sliceCol
  /\ pc' = "ranked"
  /\ UNCHANGED <<table, nrows, run, firstCols, df, cols, idx, timeVals, kept,
                 dateRange, defaults, metrics, errAt>>

\* c3: Ranking Top Segments.  agent.cols["numeric"][0] raises IndexError on an
\* empty list.
Ranked ==
  /\ pc = "ranked"
  /\ IF cols.dimensions # <<>>
     THEN IF ~Truthy(cols.rev) /\ cols.numeric = <<>>
          THEN /\ Raise("ranked")
               /\ UNCHANGED slots
          ELSE LET x_col == sliceCol
                   y_col == IF Truthy(cols.rev) THEN cols.rev ELSE cols.numeric[1]
               IN /\ slots' = [slots EXCEPT !["ranked"] =
                                 Resolved(x_col, y_col, "sum", "15", None)]
                  /\ Chart("ranked")
                  /\ pc' = "distribution"
                  /\ UNCHANGED errAt
     ELSE /\ slots' = [slots EXCEPT !["ranked"] = Unavailable]
          /\ pc' = "distribution"
          /\ UNCHANGED <<out, errAt>>
  /\ UNCHANGED <<table, nrows, run, firstCols, df, cols, idx, timeVals, kept,
                 dateRange, defaults, metrics, sliceCol>>

\* c4: Distribution & Outliers
Distribution ==
  /\ pc = "distribution"
  /\ IF cols.numeric # <<>>
     THEN \E dist_col \in Range(cols.numeric) :
            /\ slots' = [slots EXCEPT !["distribution"] =
                           Resolved(None, dist_col, "none", None, None)]
            /\ Chart("distribution")
     ELSE /\ slots' = [slots EXCEPT !["distribution"] = Unavailable]
          /\ UNCHANGED out
  /\ pc' = "correlation"
  /\ UNCHANGED <<table, nrows, run, firstCols, df, cols, idx, timeVals, kept,
                 dateRange, defaults, metrics, sliceCol, errAt>>

\* C. Correlation Lab (the axis selectboxes are left at index 0 and 1)
Correlation ==
  /\ pc = "correlation"
  /\ IF Len(cols.numeric) > 1
     THEN \E color_dim \in {"None"} \cup Range(cols.dimensions) :
            LET color_arg == IF color_dim = "None" THEN None ELSE color_dim
            IN /\ slots' = [slots EXCEPT !["correlation"] =
                              Resolved(cols.numeric[1], cols.numeric[2], "none", None,
                                       color_arg)]
               /\ Chart("correlation")
     ELSE /\ slots' = [slots EXCEPT !["correlation"] = Unavailable]
          /\ Info("correlation")
  /\ pc' = "done"
  /\ UNCHANGED <<table, nrows, run, firstCols, df, cols, idx, timeVals, kept,
                 dateRange, defaults, metrics, sliceCol, errAt>>

----------------------------------------------------------------------------
(* Specifications *)

\* the dashboard on an uploaded table
AppProfiles ==
  { Profile("order_date", "object", 99, FALSE),
    Profile("customer_id", "object", 150, FALSE),
    Profile("amount", "number", 99, FALSE),
    Profile("qty", "number", 4, FALSE),
    Profile("region", "object", 4, FALSE) }

Init == \E t \in TablesOf(AppProfiles, MaxAppCols), n \in 0..MaxRows : Start(t, n)

Next ==
  \/ ScanColumn
  \/ DateFilter
  \/ DimFilter
  \/ Metrics
  \/ Trend
  \/ Breakdown
  \/ Ranked
  \/ Distribution
  \/ Correlation

Spec == Init /\ [][Next]_vars

\* the classifier alone, run MaxRuns times over one table
ClassifyNames == {"order_date", "Created At ", "customer_id", "amount", "region"}

TimeCapable(n, t) == n \in TimeNamed \/ IsDatetime(t)

ClassifyProfiles ==
  { p \in [name : ClassifyNames, dtype : Dtypes, nunique : {99, 100}, raises : BOOLEAN] :
      /\ (p.raises => TimeCapable(p.name, p.dtype) /\ ~IsDatetime(p.dtype))
      /\ (p.nunique = 100 => IsObject(p.dtype)) }

InitClassify == \E t \in TablesOf(ClassifyProfiles, MaxCols) : Start(t, 0)

NextClassify == ScanColumn \/ Reclassify

SpecClassify == InitClassify /\ [][NextClassify]_vars

\* the spec's example table: id, price, cost, category (150 distinct values)
ExampleTables ==
  { << id, Profile("price", "number", 99, FALSE), Profile("cost", "number", 99, FALSE),
       Profile("category", "object", 150, FALSE) >> :
    id \in { p \in [name : {"id"}, dtype : Dtypes, nunique : {99, 150}, raises : {FALSE}] :
               p.nunique = 99 => IsObject(p.dtype) } }

InitExample == \E t \in ExampleTables, n \in 0..MaxRows : Start(t, n)

SpecExample == InitExample /\ [][Next]_vars

----------------------------------------------------------------------------
(* Properties *)

Classified == pc # "scan"                   \* analyze_structure has returned
MetricsDone == metrics.rows # -1            \* the metrics block has run
Emitted(kind, what) == <<kind, what>> \in Range(out)

\* columns of t whose cleaned name holds 'date', 'time' or 'created'
DateNamed(t) == { i \in DOMAIN t : t[i].name \in TimeNamed }
First(S) == CHOOSE i \in S : \A j \in S : i <= j

\* roles among time, user, rev, dimensions that hold column n
RolesOf(c, n) ==
  { r \in {"time", "user", "rev"} : c[r] = n } \cup
  { "dimensions" : i \in { j \in DOMAIN c.dimensions : c.dimensions[j] = n } }

\* C1: at every point of the column scan each column holds at most one of the
\* roles time, user, rev and dimensions (and is listed at most once in
\* dimensions), and an assigned rev column is an element of numeric.
C1_RolesExclusive ==
  /\ \A i \in DOMAIN table : Cardinality(RolesOf(cols, table[i].name)) <= 1
  /\ \A i, j \in DOMAIN cols.dimensions :
       cols.dimensions[i] = cols.dimensions[j] => i = j
  /\ Truthy(cols.rev) => cols.rev \in Range(cols.numeric)

\* C1 witness: a finished scan that assigned time and rev and found a dimension
C1_Witness ==
  /\ Classified
  /\ Truthy(cols.time) /\ Truthy(cols.rev) /\ cols.dimensions # <<>>

\* C2 as stated: with two or more date-named columns the scan ends with time
\* equal to the first date-named column.
C2_FirstDateNamedIsTime ==
  (Classified /\ Cardinality(DateNamed(table)) >= 2)
    => cols.time = table[First(DateNamed(table))].name

\* columns the time rule can assign: a date-like name or a timestamp dtype, and
\* a parse that does not raise
TimeCandidates(t) ==
  { i \in DOMAIN t : (t[i].name \in TimeNamed \/ IsDatetime(t[i].dtype))
                     /\ ~t[i].raises }

\* C2 amended: with two or more date-named columns, at every point of the scan
\* time is the first column scanned so far that matches the time rule (by name
\* or by timestamp dtype) and whose parse does not raise, and is unassigned
\* when there is none; so no later column, date-named or not, becomes time.
C2_FirstCandidateIsTime ==
  Cardinality(DateNamed(table)) >= 2 =>
    LET seen == { i \in TimeCandidates(table) : i < idx }
    IN cols.time = IF seen = {} THEN None ELSE table[First(seen)].name

\* C2 witness: two date-named columns that both parse; the scan is over and the
\* first is time while the second went to a later rule
C2_Witness ==
  /\ Classified
  /\ \E i, j \in DateNamed(table) \cap TimeCandidates(table) :
       /\ i < j
       /\ cols.time = table[i].name
       /\ table[j].name \in Range(cols.dimensions) \cup Range(cols.numeric)

\* C3: with dimensions non-empty the ranked-bar block never raises, resolves to
\* the breakdown slot's grouping column and rev (else the first numeric entry),
\* summed, top 15, and distribution and correlation are resolved after it.
C3_RankedBarNeverFails ==
  cols.dimensions # <<>> =>
    /\ errAt # "ranked"
    /\ pc \in {"distribution", "correlation", "done"} =>
         slots["ranked"] =
           Resolved(slots["breakdown"].x,
                    IF Truthy(cols.rev) THEN cols.rev ELSE cols.numeric[1],
                    "sum", "15", None)
    /\ pc = "done" => /\ slots["distribution"].status # "pending"
                      /\ slots["correlation"].status # "pending"

\* C4: every slot found unavailable has an explicit notice in the output.
C4_UnavailableIsSignalled ==
  \A s \in SlotNames : slots[s].status = "unavailable" => Emitted("info", s)

\* C5: once the metrics block has run, the ARPU metric is in the output exactly
\* when rev and user are assigned and activeUsers > 0, it is then the quotient
\* totalRevenue / activeUsers, and the block never divides by zero.
C5_ArpuIffDefined ==
  /\ errAt # "metrics"
  /\ MetricsDone =>
       /\ Emitted("metric", "ARPU")
            <=> (Truthy(cols.rev) /\ Truthy(cols.user) /\ metrics.users > 0)
       /\ Emitted("metric", "ARPU") <=> metrics.arpu # <<>>
       /\ metrics.arpu # <<>> => /\ metrics.arpu = <<metrics.rev, metrics.users>>
                                 /\ metrics.arpu[2] > 0
  /\ ~MetricsDone => ~Emitted("metric", "ARPU")

\* C5 witness: rev and user are assigned, the subset has no user, the metrics
\* block has run and shows no ARPU
C5_Witness ==
  /\ MetricsDone
  /\ Truthy(cols.rev) /\ Truthy(cols.user)
  /\ metrics.users = 0
  /\ ~Emitted("metric", "ARPU")
  /\ Emitted("metric", "Total Revenue")

\* C6 as stated: no metric, chart or notice is emitted before the classification
\* pass and all five slot resolutions are complete, and a run that reports an
\* error has emitted nothing else.
C6_AllResolvedBeforeOutput ==
  /\ (\E o \in Range(out) : o[1] # "error") =>
       /\ Classified
       /\ \A s \in SlotNames : slots[s].status # "pending"
  /\ pc = "error" => out = << <<"error", errAt>> >>

\* C6 amended: nothing is emitted before the classification pass has scanned
\* every column, and a slot's chart or notice is emitted only once that slot is
\* resolved.
C6_ClassifiedBeforeOutput ==
  /\ out # <<>> => idx > Len(table)
  /\ \A s \in SlotNames :
       (Emitted("chart", s) \/ Emitted("info", s)) => slots[s].status # "pending"

\* C6 witness: the metrics are out while all five slots are still unresolved
C6_Witness ==
  /\ Emitted("metric", "Rows Analyzed")
  /\ \A s \in SlotNames : slots[s].status = "pending"
  /\ idx > Len(table)

\* C7: a second classification of the same table ends with the role assignment
\* of the first.
C7_SameAssignment ==
  (run > 1 /\ Classified) => cols = firstCols

\* C7 witness: the second classification is over and assigned roles
C7_Witness ==
  /\ run = 2 /\ Classified
  /\ Truthy(cols.time) /\ cols.numeric # <<>> /\ cols.dimensions # <<>>

\* C8 as stated: for id, price, cost, category the classification is rev = price,
\* numeric = [price, cost], dimensions = [] whatever the type of id, and the
\* breakdown and ranked-bar slots are unavailable.
C8_ExampleAsStated ==
  /\ Classified => /\ cols.rev = "price"
                   /\ cols.numeric = <<"price", "cost">>
                   /\ cols.dimensions = <<>>
  /\ pc = "done" => /\ slots["breakdown"].status = "unavailable"
                    /\ slots["ranked"].status = "unavailable"

\* C8 amended: rev = price; numeric = [price, cost], preceded by id when id is
\* numeric; dimensions = [] and the breakdown and ranked-bar slots unavailable
\* unless id is a text column with fewer than 100 distinct values (then
\* dimensions = [id]).
C8_ExampleAmended ==
  LET id == table[1]
      idIsDim == IsObject(id.dtype) /\ id.nunique < DimThreshold
  IN /\ Classified =>
          /\ cols.rev = "price"
          /\ cols.numeric = IF IsNumber(id.dtype) THEN <<"id", "price", "cost">>
                            ELSE <<"price", "cost">>
          /\ cols.dimensions = IF idIsDim THEN <<"id">> ELSE <<>>
     /\ (pc = "done" /\ ~idIsDim) => /\ slots["breakdown"].status = "unavailable"
                                     /\ slots["ranked"].status = "unavailable"

\* C8 witness: the run over the example with a numeric id is over
C8_Witness ==
  /\ pc = "done"
  /\ IsNumber(table[1].dtype)
  /\ cols.numeric = <<"id", "price", "cost">>
  /\ slots["ranked"].status = "unavailable"

\* the role dictionary after k columns as C9 reads the chain: a column whose
\* parse raises is handed to the rules after the time rule (the time rule is
\* switched off for it), time staying as it was
RECURSIVE ClaimedCols(_, _)
ClaimedCols(t, k) ==
  IF k = 0 THEN EmptyCols
  ELSE LET c == ClaimedCols(t, k - 1)
           p == t[k]
       IN IF TimeRule(c, p) /\ p.raises
          THEN [ApplyRules([c EXCEPT !.time = "taken"], p) EXCEPT !.time = c.time]
          ELSE ApplyRules(c, p)

\* C9: a column that matches the time rule and whose parse raises is classified
\* by the later rules as if the time rule had not matched, time staying
\* unassigned, and the scan goes on to the last column.
C9_RaisingColumnFallsThrough ==
  cols = ClaimedCols(table, idx - 1)

\* C10: with the sidebar widgets at their defaults the metrics block counts
\* every row of the table.
C10_DefaultsKeepEveryRow ==
  (MetricsDone /\ defaults) => metrics.rows = nrows

====
